---- MODULE Spec2Model ----
(***************************************************************************)
(* Licensing / device-binding service: the Flask API (src/api_server.py)   *)
(* and the Discord bot (src/bot.py) over one shared SQLite database.       *)
(*                                                                         *)
(* The state is the database.  Tables are sets of rows; a UNIQUE or NOT    *)
(* NULL constraint is modelled where the INSERT / UPDATE that could break  *)
(* it runs, as the IntegrityError sqlite raises there.  hwid_registry rows *)
(* carry nothing besides their key and timestamps, so that table is a bag. *)
(*                                                                         *)
(* A handler is a function from the database and the request to the        *)
(* database it commits, the response it returns (res) and the rows it      *)
(* appends to activity_logs (logged).  activity_logs is insert-only and    *)
(* read by neither program, so what it has accumulated decides nothing;    *)
(* it appears only as each handler's logged output.                        *)
(***************************************************************************)
EXTENDS Integers, Sequences, FiniteSets, Bags, TLC

\* ---------------------------------------------------------------- values

NULL == "NULL"          \* SQL NULL / Python None / JSON null
NoDate == -1            \* a NULL timestamp column

DiscordIds  == {"u1", "u2"}
ScriptKeys  == {"s1"}
ScriptNames == {"esp"}
KeyCodes    == {"K1", "K2"}

MaxDuration == 1
TicksPerDay == 2                     \* clock readings per day
HWID_RESET_COOLDOWN_DAYS == 2        \* Config.HWID_RESET_COOLDOWN_DAYS, set by the environment
MaxNow == HWID_RESET_COOLDOWN_DAYS * TicksPerDay + 1
MaxSessions == 2                     \* concurrent redeem submissions
Sessions    == 1..MaxSessions

\* Python truthiness of a request field: None and "" are falsy.
Truthy(x) == x # NULL /\ x # ""

VARIABLES users, keys, scripts, blacklist, hwid_registry, hwid_resets, now, reqs, regs

vars == <<users, keys, scripts, blacklist, hwid_registry, hwid_resets, now, reqs, regs>>

\* The committed database, as the handlers see it.
DB == [users |-> users, keys |-> keys, scripts |-> scripts,
       blacklist |-> blacklist, hwid_registry |-> hwid_registry,
       hwid_resets |-> hwid_resets]

\* ---------------------------------------------------------------- rows

UserRow(did, hw, lic, act, exp, lr) ==
    [discord_id |-> did, hwid |-> hw, license_key |-> lic, is_active |-> act,
     expiry_date |-> exp, last_reset |-> lr]

KeyRow(code, dur, red, by) ==
    [key_code |-> code, duration_days |-> dur, is_redeemed |-> red, redeemed_by |-> by]

ScriptRow(name, sk) == [name |-> name, script_key |-> sk]

BlacklistRow(hw, reason, by, did) ==
    [hwid |-> hw, reason |-> reason, blacklisted_by |-> by, discord_id |-> did]

LogRow(did, hw, action) == [discord_id |-> did, hwid |-> hw, action |-> action]

Response(status, body, reason) == [status |-> status, body |-> body, reason |-> reason]

Out(D, res, logged) == [db |-> D, res |-> res, logged |-> logged]

\* ---------------------------------------------------------------- queries

\* SELECT ... FROM scripts WHERE script_key = ?
SelectScript(D, sk) == {r \in D.scripts : r.script_key = sk}

\* SELECT reason FROM blacklist WHERE hwid = ?   (hwid = NULL matches no row)
SelectBlacklist(D, hw) == {r \in D.blacklist : hw # NULL /\ r.hwid = hw}

\* SELECT ... FROM users WHERE discord_id = ?
SelectUser(us, did) == {r \in us : r.discord_id = did}

\* SELECT duration_days FROM keys WHERE key_code = ? AND is_redeemed = 0
SelectUnusedKey(ks, code) == {r \in ks : r.key_code = code /\ ~r.is_redeemed}

\* cursor.fetchone() on a non-empty result
FetchOne(rows) == CHOOSE r \in rows : TRUE

\* ---------------------------------------------------------------- journal

\* api_server.log_activity: the INSERT runs on its own connection inside
\* try/except, so a failing INSERT appends nothing and is swallowed.
log_activity(row, ok) == IF ok THEN <<row>> ELSE <<>>

\* ---------------------------------------------------------------- table updates

\* The blacklist table without UNIQUE on hwid
BlacklistInsertNotNull(bl, hw, reason) == hw # NULL /\ reason # NULL

\* UNIQUE / NOT NULL on INSERT INTO blacklist (hwid, reason, blacklisted_by, discord_id)
BlacklistInsertOK(bl, hw, reason) ==
    /\ hw # NULL
    /\ reason # NULL
    /\ \A r \in bl : r.hwid # hw

\* UPDATE users SET is_active = 0, without the WHERE clause
DeactivateAll(us, hw) == {[r EXCEPT !.is_active = FALSE] : r \in us}

\* UPDATE users SET is_active = 0 WHERE hwid = ?
DeactivateByHwid(us, hw) ==
    {IF r.hwid = hw THEN [r EXCEPT !.is_active = FALSE] ELSE r : r \in us}

\* UPDATE users SET hwid = ? WHERE discord_id = ?
SetUserHwid(us, did, hw) ==
    {IF r.discord_id = did THEN [r EXCEPT !.hwid = hw] ELSE r : r \in us}

\* NOT NULL on INSERT INTO hwid_registry (discord_id, hwid)
RegistryInsertOK(did, hw) == did # NULL /\ hw # NULL

\* The registry without UNIQUE(discord_id, hwid): every call inserts a row
RegistryInsert(reg, did, hw) == reg (+) SetToBag({<<did, hw>>})

\* INSERT INTO hwid_registry ... ON CONFLICT(discord_id, hwid) DO UPDATE SET last_seen
RegistryUpsert(reg, did, hw) ==
    IF BagIn(<<did, hw>>, reg) THEN reg ELSE reg (+) SetToBag({<<did, hw>>})

\* NOT NULL alone, as on a keys table whose key_code is not UNIQUE
KeyInsertNotNull(ks, code, dur) == code # NULL

\* UNIQUE / NOT NULL on INSERT INTO keys (key_code, duration_days)
KeyInsertOK(ks, code, dur) ==
    /\ code # NULL
    /\ \A r \in ks : r.key_code # code

\* UNIQUE / NOT NULL on INSERT INTO scripts (name, script_key, description)
ScriptInsertOK(sc, name, sk) ==
    /\ name # NULL
    /\ sk # NULL
    /\ \A r \in sc : r.script_key # sk

\* ---------------------------------------------------------------- API handlers

\* A verify-key that deactivates the subscribers bound to the fingerprint
\* it denies as blacklisted
verify_key_deactivating(D, script_key, hwid, logok) ==
    LET script == SelectScript(D, script_key)
        bl     == SelectBlacklist(D, hwid)
    IN  IF script = {}
        THEN IF script_key = NULL
             THEN Out(D, Response(500, "error", NULL), <<>>)
             ELSE Out(D, Response(403, "invalid_key", NULL),
                      log_activity(LogRow(NULL, hwid, "INVALID_KEY"), logok))
        ELSE IF Truthy(hwid) /\ bl # {}
             THEN Out([D EXCEPT !.users = DeactivateByHwid(@, hwid)],
                      Response(403, "blacklisted", FetchOne(bl).reason),
                      log_activity(LogRow(NULL, hwid, "BLACKLIST_CHECK"), logok))
             ELSE Out(D, Response(200, "valid", NULL),
                      log_activity(LogRow(NULL, hwid, "KEY_VERIFIED"), logok))

\* POST /verify-key
verify_key(D, script_key, hwid, logok) ==
    LET script == SelectScript(D, script_key)
        bl     == SelectBlacklist(D, hwid)
    IN  IF script = {}
        THEN IF script_key = NULL
             THEN \* script_key[:16] raises TypeError before the log call
                  Out(D, Response(500, "error", NULL), <<>>)
             ELSE Out(D, Response(403, "invalid_key", NULL),
                      log_activity(LogRow(NULL, hwid, "INVALID_KEY"), logok))
        ELSE IF Truthy(hwid) /\ bl # {}
             THEN Out(D, Response(403, "blacklisted", FetchOne(bl).reason),
                      log_activity(LogRow(NULL, hwid, "BLACKLIST_CHECK"), logok))
             ELSE Out(D, Response(200, "valid", NULL),
                      log_activity(LogRow(NULL, hwid, "KEY_VERIFIED"), logok))

\* POST /check-blacklist
check_blacklist(D, hwid, script_key, logok) ==
    LET bl == SelectBlacklist(D, hwid)
    IN  IF Truthy(script_key) /\ SelectScript(D, script_key) = {}
        THEN Out(D, Response(403, "invalid_key", NULL), <<>>)
        ELSE IF bl # {}
             THEN Out(D, Response(200, "blacklisted", FetchOne(bl).reason),
                      log_activity(LogRow(NULL, hwid, "BLACKLIST_ATTEMPT"), logok))
             ELSE Out(D, Response(200, "not_blacklisted", NULL), <<>>)

\* The writes of /register-hwid and /admin/register-hwid, one transaction
BindDevice(D, discord_id, hwid) ==
    [D EXCEPT !.hwid_registry = RegistryUpsert(D.hwid_registry, discord_id, hwid),
              !.users = SetUserHwid(D.users, discord_id, hwid)]

\* register_hwid after its blacklist SELECT found no row: the registry
\* upsert and the users UPDATE in one transaction, then the journal row.
RegisterWrite(D, hwid, discord_id, logok) ==
    IF Truthy(discord_id)
    THEN IF RegistryInsertOK(discord_id, hwid)
         THEN Out(BindDevice(D, discord_id, hwid), Response(200, "success", NULL),
                  log_activity(LogRow(discord_id, hwid, "HWID_REGISTERED"), logok))
         ELSE \* except sqlite3.IntegrityError: pass  (nothing committed)
              Out(D, Response(200, "success", NULL), <<>>)
    ELSE Out(D, Response(200, "success", NULL),
             log_activity(LogRow(NULL, hwid, "ANONYMOUS_HWID"), logok))

\* POST /register-hwid
register_hwid(D, hwid, discord_id, script_key, logok) ==
    LET bl == SelectBlacklist(D, hwid)
    IN  IF Truthy(script_key) /\ SelectScript(D, script_key) = {}
        THEN Out(D, Response(403, "invalid_key", NULL), <<>>)
        ELSE IF bl # {}
        THEN Out(D, Response(403, "blacklisted", FetchOne(bl).reason),
                 log_activity(LogRow(discord_id, hwid, "BLACKLIST_REGISTER_ATTEMPT"), logok))
        ELSE RegisterWrite(D, hwid, discord_id, logok)

\* POST /admin/register-hwid
admin_register_hwid(D, discord_id, hwid, logok) ==
    IF RegistryInsertOK(discord_id, hwid)
    THEN Out(BindDevice(D, discord_id, hwid), Response(200, "success", NULL),
             log_activity(LogRow(discord_id, hwid, "HWID_REGISTERED"), logok))
    ELSE Out(D, Response(500, "error", NULL), <<>>)

\* A ban that removes the subscribers bound to the fingerprint
admin_blacklist_purging(D, hwid, reason, blacklisted_by, discord_id, logok) ==
    IF BlacklistInsertOK(D.blacklist, hwid, reason)
    THEN Out([D EXCEPT !.blacklist = @ \cup
                          {BlacklistRow(hwid, reason, blacklisted_by, discord_id)},
                       !.users = {r \in @ : r.hwid # hwid}],
             Response(200, "success", NULL),
             log_activity(LogRow(discord_id, hwid, "BLACKLISTED"), logok))
    ELSE Out(D, Response(409, "conflict", NULL), <<>>)

\* POST /admin/blacklist
admin_blacklist(D, hwid, reason, blacklisted_by, discord_id, logok) ==
    IF BlacklistInsertOK(D.blacklist, hwid, reason)
    THEN Out([D EXCEPT !.blacklist = @ \cup
                          {BlacklistRow(hwid, reason, blacklisted_by, discord_id)},
                       !.users = DeactivateByHwid(@, hwid)],
             Response(200, "success", NULL),
             log_activity(LogRow(discord_id, hwid, "BLACKLISTED"), logok))
    ELSE Out(D, Response(409, "conflict", NULL), <<>>)

\* POST /admin/add-key
admin_add_key(D, key_code, duration_days, logok) ==
    IF KeyInsertOK(D.keys, key_code, duration_days)
    THEN Out([D EXCEPT !.keys = @ \cup {KeyRow(key_code, duration_days, FALSE, NULL)}],
             Response(200, "success", NULL),
             log_activity(LogRow(NULL, NULL, "KEY_ADDED"), logok))
    ELSE Out(D, Response(409, "conflict", NULL), <<>>)

\* A delete-key that also revokes the subscription the key had granted
admin_delete_key_revoking(D, key_code, logok) ==
    Out([D EXCEPT !.keys = {r \in @ : r.key_code # key_code},
                  !.users = {IF r.license_key = key_code
                             THEN [r EXCEPT !.is_active = FALSE]
                             ELSE r : r \in @}],
        Response(200, "success", NULL),
        log_activity(LogRow(NULL, NULL, "KEY_DELETED"), logok))

\* POST /admin/delete-key
admin_delete_key(D, key_code, logok) ==
    Out([D EXCEPT !.keys = {r \in @ : r.key_code # key_code}],
        Response(200, "success", NULL),
        log_activity(LogRow(NULL, NULL, "KEY_DELETED"), logok))

\* POST /admin/add-script
admin_add_script(D, name, script_key, logok) ==
    IF ScriptInsertOK(D.scripts, name, script_key)
    THEN Out([D EXCEPT !.scripts = @ \cup {ScriptRow(name, script_key)}],
             Response(200, "success", NULL),
             log_activity(LogRow(NULL, NULL, "SCRIPT_ADDED"), logok))
    ELSE Out(D, Response(409, "conflict", NULL), <<>>)

\* ---------------------------------------------------------------- bot: time

\* timedelta(seconds=n): one clock reading for each day asked for
timedelta_short(days) == days

\* timedelta(days=n) in clock readings
timedelta(days) == days * TicksPerDay

\* The time elapsed in clock readings, not in whole days
ticks_between(t, earlier) == t - earlier

\* (datetime.now() - last_reset_date).days
days_between(t, earlier) == (t - earlier) \div TicksPerDay

\* ---------------------------------------------------------------- bot: redeem

\* key_input.value.upper().strip() on the texts a member may type
upper_strip(text) ==
    CASE text = "k1"   -> "K1"
      [] text = " K1 " -> "K1"
      [] text = "k2"   -> "K2"
      [] OTHER         -> text

\* UNIQUE(license_key) alone, as on a users table whose discord_id is not UNIQUE
RedeemUsersLicenseOnly(us, did, code, exists) ==
    IF exists
    THEN \A r \in us : r.license_key = code => r.discord_id = did
    ELSE \A r \in us : r.license_key # code

\* UNIQUE(discord_id), UNIQUE(license_key) on the UPDATE / INSERT of users
RedeemUsersOK(us, did, code, exists) ==
    IF exists
    THEN \A r \in us : r.license_key = code => r.discord_id = did
    ELSE \A r \in us : r.license_key # code /\ r.discord_id # did

\* UPDATE users SET license_key, expiry_date, is_active = 1 WHERE discord_id = ?
\* or INSERT INTO users (discord_id, username, license_key, expiry_date, is_active)
RedeemUsers(us, did, code, expiry, exists) ==
    IF exists
    THEN {IF r.discord_id = did
          THEN [r EXCEPT !.license_key = code, !.expiry_date = expiry, !.is_active = TRUE]
          ELSE r : r \in us}
    ELSE us \cup {UserRow(did, NULL, code, TRUE, expiry, NoDate)}

\* UPDATE keys SET is_redeemed = 1, redeemed_by = ?, redeemed_at = ? WHERE key_code = ?
RedeemKeys(ks, did, code) ==
    {IF r.key_code = code
     THEN [r EXCEPT !.is_redeemed = TRUE, !.redeemed_by = did]
     ELSE r : r \in ks}

\* bot.log_activity has no try/except: a failing INSERT raises.
bot_log_activity(row, ok) == IF ok THEN <<row>> ELSE <<>>

BotReply(body) == Response(0, body, NULL)

\* The transaction of on_submit and what follows it: the commit, then the
\* journal row, then the reply; a failing journal INSERT raises after the
\* commit and before the reply.
RedeemWrite(D, user, key_code, expiry, exists, logok) ==
    IF RedeemUsersOK(D.users, user, key_code, exists)
    THEN Out([D EXCEPT !.users = RedeemUsers(@, user, key_code, expiry, exists),
                       !.keys = RedeemKeys(@, user, key_code)],
             BotReply(IF logok THEN "success" ELSE "exception"),
             bot_log_activity(LogRow(user, NULL, "REDEEM_KEY"), logok))
    ELSE \* sqlite3.IntegrityError propagates; nothing is committed
         Out(D, BotReply("exception"), <<>>)

\* RedeemKeyModal.on_submit, run without interruption
redeem_key(D, t, user, text, logok) ==
    LET key_code == upper_strip(text)
        key_data == SelectUnusedKey(D.keys, key_code)
    IN  IF key_data = {}
        THEN Out(D, BotReply("invalid"), <<>>)
        ELSE RedeemWrite(D, user, key_code, t + timedelta(FetchOne(key_data).duration_days),
                         SelectUser(D.users, user) # {}, logok)

\* ---------------------------------------------------------------- bot: genkey

MaxKeysPerCommand == 20

\* The INSERTs of the genkey loop, in order, up to the first that violates
\* UNIQUE(key_code)
RECURSIVE GenInsert(_, _, _)
GenInsert(ks, generated, duration) ==
    IF generated = << >>
    THEN [ok |-> TRUE, keys |-> ks]
    ELSE IF KeyInsertOK(ks, Head(generated), duration)
    THEN GenInsert(ks \cup {KeyRow(Head(generated), duration, FALSE, NULL)},
                   Tail(generated), duration)
    ELSE [ok |-> FALSE, keys |-> ks]

\* genkey_command; admin is is_admin(interaction), generated the values
\* generate_key() returns in the loop (range(amount) is empty for amount <= 0)
genkey_command(D, user, duration, amount, admin, generated, logok) ==
    LET ins == GenInsert(D.keys, generated, duration)
    IN  IF ~admin
        THEN Out(D, BotReply("no_admin"), <<>>)
        ELSE IF amount > MaxKeysPerCommand
        THEN Out(D, BotReply("max_keys"), <<>>)
        ELSE IF ins.ok
        THEN Out([D EXCEPT !.keys = ins.keys],
                 BotReply(IF logok THEN "success" ELSE "exception"),
                 bot_log_activity(LogRow(user, NULL, "GEN_KEYS"), logok))
        ELSE \* sqlite3.IntegrityError propagates; nothing is committed
             Out(D, BotReply("exception"), <<>>)

\* ---------------------------------------------------------------- bot: panel

\* PanelView.get_script_button; buyer is has_buyer_role(interaction).  The
\* reply "scripts" carries the script_key of every row of scripts.
get_script_button(D, user, buyer) ==
    LET found == SelectUser(D.users, user)
    IN  IF ~buyer
        THEN Out(D, BotReply("no_role"), << >>)
        ELSE IF found = {} \/ ~FetchOne(found).is_active
        THEN Out(D, BotReply("no_subscription"), << >>)
        ELSE IF D.scripts = {}
        THEN Out(D, BotReply("no_scripts"), << >>)
        ELSE Out(D, Response(0, "scripts", {r.script_key : r \in D.scripts}), << >>)

\* ---------------------------------------------------------------- bot: whitelist

\* whitelist_command; admin is is_admin(interaction), role what
\* Config.BUYER_ROLE_ID and guild.get_role give: "unset", "missing" or
\* "found".  user.add_roles changes the member in the guild, which the
\* handlers read back through has_buyer_role; no statement of the command
\* reaches the users table.  A failing journal INSERT is caught by the
\* except clause of the command.
whitelist_command(D, by, user, admin, role, logok) ==
    IF ~admin
    THEN Out(D, BotReply("no_admin"), << >>)
    ELSE IF role = "unset"
    THEN Out(D, BotReply("role_unset"), << >>)
    ELSE IF role = "missing"
    THEN Out(D, BotReply("role_missing"), << >>)
    ELSE Out(D, BotReply(IF logok THEN "success" ELSE "error"),
             bot_log_activity(LogRow(by, NULL, "WHITELIST_USER"), logok))

\* ---------------------------------------------------------------- bot: reset

\* INSERT INTO hwid_resets (discord_id, old_hwid)
ResetsInsert(rs, did, old_hwid) == rs (+) SetToBag({<<did, old_hwid>>})

\* UPDATE users SET hwid = NULL, without the last_reset stamp
ClearHwidOnly(us, did, t) ==
    {IF r.discord_id = did THEN [r EXCEPT !.hwid = NULL] ELSE r : r \in us}

\* UPDATE users SET hwid = NULL, last_reset = ? WHERE discord_id = ?
ClearUserHwid(us, did, t) ==
    {IF r.discord_id = did THEN [r EXCEPT !.hwid = NULL, !.last_reset = t] ELSE r : r \in us}

\* The transaction of reset_hwid_button and what follows it: the commit,
\* then the journal row, then the reply.
ResetWrite(D, t, user, hwid, logok) ==
    Out([D EXCEPT !.hwid_resets = ResetsInsert(@, user, hwid),
                  !.users = ClearUserHwid(@, user, t)],
        BotReply(IF logok THEN "success" ELSE "exception"),
        bot_log_activity(LogRow(user, NULL, "HWID_RESET"), logok))

\* A reset handler that tests the cooldown before the bound fingerprint
reset_cooldown_first(D, t, user, buyer, logok) ==
    LET result == SelectUser(D.users, user)
        row    == FetchOne(result)
        days_since == days_between(t, row.last_reset)
    IN  IF ~buyer
        THEN Out(D, BotReply("no_role"), <<>>)
        ELSE IF result # {} /\ row.last_reset # NoDate /\ days_since < HWID_RESET_COOLDOWN_DAYS
        THEN Out(D, Response(0, "cooldown", HWID_RESET_COOLDOWN_DAYS - days_since), <<>>)
        ELSE IF result = {} \/ ~Truthy(row.hwid)
        THEN Out(D, BotReply("no_hwid"), <<>>)
        ELSE ResetWrite(D, t, user, row.hwid, logok)

\* PanelView.reset_hwid_button; buyer is has_buyer_role(interaction)
reset_hwid(D, t, user, buyer, logok) ==
    LET result == SelectUser(D.users, user)
        row    == FetchOne(result)
        days_since == days_between(t, row.last_reset)
    IN  IF ~buyer
        THEN Out(D, BotReply("no_role"), <<>>)
        ELSE IF result = {} \/ ~Truthy(row.hwid)
        THEN Out(D, BotReply("no_hwid"), <<>>)
        ELSE IF row.last_reset # NoDate /\ days_since < HWID_RESET_COOLDOWN_DAYS
        THEN Out(D, Response(0, "cooldown", HWID_RESET_COOLDOWN_DAYS - days_since), <<>>)
        ELSE ResetWrite(D, t, user, row.hwid, logok)

\* ---------------------------------------------------------------- actions

\* The clock of the host advances.
Tick ==
    /\ now < MaxNow
    /\ now' = now + 1
    /\ UNCHANGED <<users, keys, scripts, blacklist, hwid_registry, hwid_resets, reqs, regs>>

Commit(o) ==
    /\ users' = o.db.users
    /\ keys' = o.db.keys
    /\ scripts' = o.db.scripts
    /\ blacklist' = o.db.blacklist
    /\ hwid_registry' = o.db.hwid_registry
    /\ hwid_resets' = o.db.hwid_resets

Request(o) == Commit(o) /\ UNCHANGED <<now, reqs, regs>>

\* A /register-hwid request before it reaches the database
IdleReg == [pc |-> "idle", hwid |-> NULL, discord_id |-> NULL, result |-> NULL]

IdleReq == [pc |-> "idle", user |-> NULL, key_code |-> NULL,
            expiry_date |-> NoDate, user_exists |-> FALSE, result |-> NULL]

\* on_submit statement by statement, for submissions that reach the database
\* from separate connections: the two SELECTs run in autocommit, the writes
\* in one implicit transaction ended by conn.commit().
redeem_select_key(s, user, text) ==
    LET key_code == upper_strip(text)
        key_data == SelectUnusedKey(keys, key_code)
    IN  /\ reqs[s].pc = "idle"
        /\ UNCHANGED <<users, keys, scripts, blacklist, hwid_registry, hwid_resets, now, regs>>
        /\ reqs' = [reqs EXCEPT ![s] =
              IF key_data = {}
              THEN [IdleReq EXCEPT !.pc = "done", !.user = user, !.key_code = key_code,
                                   !.result = "invalid"]
              ELSE [IdleReq EXCEPT !.pc = "select_user", !.user = user,
                                   !.key_code = key_code,
                                   !.expiry_date = now + timedelta(FetchOne(key_data).duration_days)]]

redeem_select_user(s) ==
    /\ reqs[s].pc = "select_user"
    /\ UNCHANGED <<users, keys, scripts, blacklist, hwid_registry, hwid_resets, now, regs>>
    /\ reqs' = [reqs EXCEPT ![s].pc = "write",
                            ![s].user_exists = (SelectUser(users, reqs[s].user) # {})]

redeem_commit(s, logok) ==
    LET r == reqs[s]
        o == RedeemWrite(DB, r.user, r.key_code, r.expiry_date, r.user_exists, logok)
    IN  /\ r.pc = "write"
        /\ Commit(o)
        /\ UNCHANGED <<now, regs>>
        /\ reqs' = [reqs EXCEPT ![s].pc = "done", ![s].result = o.res.body]

\* register_hwid statement by statement, for requests served by separate
\* workers: the blacklist SELECT runs in autocommit, the writes in one
\* implicit transaction ended by conn.commit().  The request carries no
\* script_key.
register_select_blacklist(s, hwid, discord_id) ==
    LET bl == SelectBlacklist(DB, hwid)
    IN  /\ regs[s].pc = "idle"
        /\ UNCHANGED <<users, keys, scripts, blacklist, hwid_registry, hwid_resets, now, reqs>>
        /\ regs' = [regs EXCEPT ![s] =
              [pc |-> IF bl # {} THEN "done" ELSE "write",
               hwid |-> hwid, discord_id |-> discord_id,
               result |-> IF bl # {} THEN "blacklisted" ELSE NULL]]

register_commit(s, logok) ==
    LET r == regs[s]
        o == RegisterWrite(DB, r.hwid, r.discord_id, logok)
    IN  /\ r.pc = "write"
        /\ Commit(o)
        /\ UNCHANGED <<now, reqs>>
        /\ regs' = [regs EXCEPT ![s].pc = "done", ![s].result = o.res.body]

Init ==
    /\ users = {}
    /\ keys = {}
    /\ scripts = {}
    /\ blacklist = {}
    /\ hwid_registry = EmptyBag
    /\ hwid_resets = EmptyBag
    /\ now = 0
    /\ reqs = [s \in Sessions |-> IdleReq]
    /\ regs = [s \in Sessions |-> IdleReg]

\* ---------------------------------------------------------------- specifications

ReqIds     == DiscordIds \cup {NULL}
ReqScripts == ScriptKeys \cup {"bad", NULL}
KeyTexts   == KeyCodes \cup {"k1"}
BanInputs  == {<<"r1", "system">>, <<"r2", "mod">>}    \* reason, blacklisted_by
KeyInputs  == {<<"K1", 1>>, <<"K2", MaxDuration>>}     \* key_code, duration_days
AllHwids   == {"", "h1", "h2", NULL}

\* Whether the journal INSERT succeeds changes nothing a handler commits, so
\* the actions take one outcome; the properties range over both.

VerifyKey(H) ==
    \E sk \in ReqScripts, hw \in H \cup {NULL} : Request(verify_key(DB, sk, hw, TRUE))

CheckBlacklist(H) ==
    \E hw \in H \cup {NULL}, sk \in ReqScripts : Request(check_blacklist(DB, hw, sk, TRUE))

RegisterHwid(H) ==
    \E hw \in H \cup {NULL}, did \in ReqIds, sk \in ReqScripts :
        Request(register_hwid(DB, hw, did, sk, TRUE))

AdminRegisterHwid(H) ==
    \E did \in ReqIds, hw \in H \cup {NULL} : Request(admin_register_hwid(DB, did, hw, TRUE))

AdminBlacklist(H) ==
    \E hw \in H \cup {NULL}, b \in BanInputs :
        Request(admin_blacklist(DB, hw, b[1], b[2], NULL, TRUE))

AdminAddKey ==
    \E k \in KeyInputs : Request(admin_add_key(DB, k[1], k[2], TRUE))

AdminDeleteKey == \E kc \in KeyCodes : Request(admin_delete_key(DB, kc, TRUE))

AdminAddScript ==
    \E nm \in ScriptNames, sk \in ScriptKeys : Request(admin_add_script(DB, nm, sk, TRUE))

RedeemKey == \E u \in DiscordIds, t \in KeyTexts : Request(redeem_key(DB, now, u, t, TRUE))

RedeemSelectKey == \E s \in Sessions, u \in DiscordIds, t \in KeyTexts : redeem_select_key(s, u, t)

RedeemSelectUser == \E s \in Sessions : redeem_select_user(s)

RedeemCommit == \E s \in Sessions : redeem_commit(s, TRUE)

\* Requests served one at a time, their fingerprints drawn from H.
NextOn(H) ==
    \/ VerifyKey(H)
    \/ CheckBlacklist(H)
    \/ RegisterHwid(H)
    \/ AdminRegisterHwid(H)
    \/ AdminBlacklist(H)
    \/ AdminAddKey
    \/ AdminDeleteKey
    \/ AdminAddScript
    \/ RedeemKey

Next == NextOn({"h1", "h2"})

Spec == Init /\ [][Next]_vars

\* The same requests with the empty string among the fingerprints.
NextEmpty == NextOn({"", "h1"})

SpecEmpty == Init /\ [][NextEmpty]_vars

\* Redeem submissions reaching the database from separate connections.
NextConc ==
    \/ AdminAddKey
    \/ AdminDeleteKey
    \/ RedeemSelectKey
    \/ RedeemSelectUser
    \/ RedeemCommit

SpecConc == Init /\ [][NextConc]_vars

\* amount and the values generate_key() returns for it
GenInputs ==
    {<<n, g>> : n \in {0, 1, 2}, g \in UNION {[1..m -> KeyCodes] : m \in {0, 1, 2}}}
    \cup {<<MaxKeysPerCommand + 1, << >> >>}

GenKey ==
    \E a \in GenInputs, d \in {1, MaxDuration}, admin \in BOOLEAN :
        /\ a[1] <= MaxKeysPerCommand => Len(a[2]) = a[1]
        /\ Request(genkey_command(DB, "admin", d, a[1], admin, a[2], TRUE))

\* The key ledger over time: issue, add, delete, redeem.
NextKeys ==
    \/ Tick
    \/ GenKey
    \/ AdminAddKey
    \/ AdminDeleteKey
    \/ RedeemKey

SpecKeys == Init /\ [][NextKeys]_vars

RegisterSelectBlacklist(H) ==
    \E s \in Sessions, hw \in H, did \in DiscordIds : register_select_blacklist(s, hw, did)

RegisterCommit == \E s \in Sessions : register_commit(s, TRUE)

ResetHwid == \E u \in DiscordIds, buyer \in BOOLEAN : Request(reset_hwid(DB, now, u, buyer, TRUE))

\* One device, two members, and the clock: redemption, registration, reset
\* and ban over time.
NextReset ==
    \/ Tick
    \/ AdminAddKey
    \/ RedeemKey
    \/ RegisterHwid({"h1"})
    \/ AdminBlacklist({"h1"})
    \/ ResetHwid

SpecReset == Init /\ [][NextReset]_vars

\* Registrations served by separate workers while bans and redemptions commit.
NextRace ==
    \/ AdminAddKey
    \/ RedeemKey
    \/ AdminBlacklist({"h1", "h2"})
    \/ RegisterSelectBlacklist({"h1", "h2"})
    \/ RegisterCommit

SpecRace == Init /\ [][NextRace]_vars

\* The durations a request may carry: duration: int of /genkey and the JSON
\* duration_days of /admin/add-key are not restricted to the positive ones.
Durations == 0..MaxDuration

AdminAddKeyAny ==
    \E kc \in KeyCodes, d \in Durations : Request(admin_add_key(DB, kc, d, TRUE))

GenKeyAny ==
    \E a \in GenInputs, d \in Durations, admin \in BOOLEAN :
        /\ a[1] <= MaxKeysPerCommand => Len(a[2]) = a[1]
        /\ Request(genkey_command(DB, "admin", d, a[1], admin, a[2], TRUE))

\* The key ledger with every duration a request may carry.
NextIssue ==
    \/ Tick
    \/ GenKeyAny
    \/ AdminAddKeyAny
    \/ AdminDeleteKey
    \/ RedeemKey

SpecIssue == Init /\ [][NextIssue]_vars

RoleLookups == {"unset", "missing", "found"}

Whitelist ==
    \E u \in DiscordIds, admin \in BOOLEAN, role \in RoleLookups :
        Request(whitelist_command(DB, "admin", u, admin, role, TRUE))

\* Subscribers provisioned by the whitelist command beside those that redeem.
NextWhitelist ==
    \/ Tick
    \/ Whitelist
    \/ AdminAddKey
    \/ RedeemKey
    \/ ResetHwid

SpecWhitelist == Init /\ [][NextWhitelist]_vars

\* Keys of two durations, the longer one MaxRenewal days
MaxRenewal == 2

RenewalInputs == {<<"K1", MaxRenewal>>, <<"K2", 1>>}    \* key_code, duration_days

AdminAddKeyRenewal ==
    \E k \in RenewalInputs : Request(admin_add_key(DB, k[1], k[2], TRUE))

\* Members that redeem one key after another while the clock advances.
NextRenew ==
    \/ Tick
    \/ AdminAddKeyRenewal
    \/ AdminDeleteKey
    \/ RedeemKey

SpecRenew == Init /\ [][NextRenew]_vars

\* One device and the clock: redemption, registration and reset, no ban.
NextCooldown ==
    \/ Tick
    \/ AdminAddKey
    \/ RedeemKey
    \/ RegisterHwid({"h1"})
    \/ ResetHwid

SpecCooldown == Init /\ [][NextCooldown]_vars

\* The key codes a /admin/add-key body may carry: the JSON string is stored
\* as it is sent, in whatever case.
StoredCodes == KeyCodes \cup {"k1"}

AdminAddKeyStored ==
    \E kc \in StoredCodes : Request(admin_add_key(DB, kc, 1, TRUE))

\* Keys from both issue paths, redeemed by the texts members type.
NextStored ==
    \/ Tick
    \/ GenKey
    \/ AdminAddKeyStored
    \/ RedeemKey

SpecStored == Init /\ [][NextStored]_vars

GetScript ==
    \E u \in DiscordIds, buyer \in BOOLEAN : Request(get_script_button(DB, u, buyer))

\* Members that redeem and ask the panel for the scripts while the clock
\* advances past their expiry.
NextPanel ==
    \/ Tick
    \/ AdminAddKey
    \/ AdminAddScript
    \/ RedeemKey
    \/ GetScript

SpecPanel == Init /\ [][NextPanel]_vars

\* ---------------------------------------------------------------- properties

Resolves(D, sk) == SelectScript(D, sk) # {}
Banned(D, hw)   == SelectBlacklist(D, hw) # {}
DoneOn(k)       == {s \in Sessions : reqs[s].pc = "done" /\ reqs[s].key_code = k}

C2_VerifyDeniesBlacklisted ==
    \A sk \in ReqScripts, hw \in AllHwids \ {NULL}, ok \in BOOLEAN :
        Banned(DB, hw) =>
            LET o == verify_key(DB, sk, hw, ok)
            IN  /\ o.res.body # "valid"
                /\ Resolves(DB, sk) =>
                      /\ o.res.body = "blacklisted"
                      /\ \E b \in blacklist : b.hwid = hw /\ b.reason = o.res.reason

\* C3: while a fingerprint is in the blacklist, verify_key called with a
\* credential that resolves and the fingerprint a subscriber is bound to
\* answers blacklisted.
C3_BoundAndBannedIsDenied ==
    \A u \in users, sk \in ScriptKeys, ok \in BOOLEAN :
        (u.hwid # NULL /\ Banned(DB, u.hwid) /\ Resolves(DB, sk)) =>
            LET o == verify_key(DB, sk, u.hwid, ok)
            IN  ~(o.res.body = "valid") /\ o.res.body = "blacklisted"

\* C4: a ban that succeeds commits, in one step, the blacklist row with the
\* given reason and is_active = 0 for every subscriber bound to the
\* fingerprint; every other subscriber row is as it was.
C4_BanCascades ==
    \A hw \in AllHwids, b \in BanInputs, did \in ReqIds :
        LET o == admin_blacklist(DB, hw, b[1], b[2], did, TRUE)
        IN  o.res.body = "success" =>
              /\ \E r \in o.db.blacklist : r.hwid = hw /\ r.reason = b[1]
              /\ \A u \in o.db.users : u.hwid = hw => ~u.is_active
              /\ \A u \in users : u.hwid # hw => u \in o.db.users
              /\ \A u \in users : u.hwid = hw =>
                    [u EXCEPT !.is_active = FALSE] \in o.db.users
              /\ Cardinality(o.db.users) = Cardinality(users)

\* A ban has cascaded: a deactivated subscriber bound to a blacklisted
\* fingerprint beside an active subscriber bound to another one.
C4_Witness ==
    \E u \in users, v \in users, r \in blacklist :
        /\ u.hwid = r.hwid /\ ~u.is_active
        /\ v.hwid \notin {NULL, r.hwid} /\ v.is_active
        /\ admin_blacklist(DB, v.hwid, "r1", "system", NULL, TRUE).res.body = "success"

\* C5: a ban of a fingerprint already in the blacklist answers conflict and
\* commits nothing (the row and every subscriber stay as they were); the
\* blacklist never holds two rows for one fingerprint.
C5_BanConflict ==
    /\ \A hw \in AllHwids, b \in BanInputs, did \in ReqIds :
          Banned(DB, hw) =>
              LET o == admin_blacklist(DB, hw, b[1], b[2], did, TRUE)
              IN  /\ o.res = Response(409, "conflict", NULL)
                  /\ o.db.blacklist = blacklist
                  /\ o.db.users = users
    /\ \A r1 \in blacklist, r2 \in blacklist : r1.hwid = r2.hwid => r1 = r2

\* A second ban with another reason meets a row that has deactivated a
\* subscriber, and is answered conflict.
C5_Witness ==
    \E r \in blacklist, u \in users :
        /\ r.reason = "r1" /\ u.hwid = r.hwid /\ ~u.is_active
        /\ admin_blacklist(DB, r.hwid, "r2", "mod", NULL, TRUE).res.body = "conflict"

\* C6: when verify_key answers valid to a request that carries a
\* fingerprint and some subscriber has no bound fingerprint, a subscriber
\* that had none is bound to that fingerprint by the call.
C6_VerifyBindsFirstDevice ==
    \A sk \in ReqScripts, hw \in {"h1", "h2"}, ok \in BOOLEAN :
        LET o == verify_key(DB, sk, hw, ok)
        IN  (o.res.body = "valid" /\ \E u \in users : u.hwid = NULL) =>
                \E u \in users, v \in o.db.users :
                    u.hwid = NULL /\ v.discord_id = u.discord_id /\ v.hwid = hw

\* The rows a registration call appends to the journal when it moves a
\* subscriber from one fingerprint to another
Rebinds(D, o) ==
    \E u \in D.users, v \in o.db.users :
        /\ v.discord_id = u.discord_id
        /\ u.hwid # NULL /\ v.hwid # NULL /\ v.hwid # u.hwid

LogsDeviceChanged(o) ==
    \E i \in 1..Len(o.logged) : o.logged[i].action = "DEVICE_CHANGED"

\* C7: a registration (public or administrative) that changes a subscriber's
\* bound fingerprint from one value to another appends a DeviceChanged
\* record.
C7_RebindIsLogged ==
    \A hw \in AllHwids, did \in ReqIds, sk \in ReqScripts :
        LET o == register_hwid(DB, hw, did, sk, TRUE)
            a == admin_register_hwid(DB, did, hw, TRUE)
        IN  /\ Rebinds(DB, o) => LogsDeviceChanged(o)
            /\ Rebinds(DB, a) => LogsDeviceChanged(a)

\* C8: a registration (public or administrative) for a subscriber already
\* bound to another fingerprint leaves the stored binding as it was.
C8_BindOnlyIfUnset ==
    \A hw \in AllHwids, did \in ReqIds, sk \in ReqScripts :
        LET o == register_hwid(DB, hw, did, sk, TRUE)
            a == admin_register_hwid(DB, did, hw, TRUE)
        IN  ~Rebinds(DB, o) /\ ~Rebinds(DB, a)

Unbound(D, o) ==
    o.db.users = D.users /\ o.db.hwid_registry = D.hwid_registry

\* C9: both registration paths, called with a fingerprint that is in the
\* blacklist (and, on the public path, a credential that resolves or none),
\* answer blacklisted with the recorded reason and bind nothing.
C9_RegistrationChecksBlacklist ==
    \A hw \in AllHwids, did \in ReqIds, sk \in ScriptKeys \cup {NULL} :
        (Banned(DB, hw) /\ (sk = NULL \/ Resolves(DB, sk))) =>
            LET o == register_hwid(DB, hw, did, sk, TRUE)
                a == admin_register_hwid(DB, did, hw, TRUE)
            IN  /\ o.res.body = "blacklisted" /\ Unbound(DB, o)
                /\ \E b \in blacklist : b.hwid = hw /\ b.reason = o.res.reason
                /\ a.res.body = "blacklisted" /\ Unbound(DB, a)

\* C10: register_hwid called again with the same request answers as the
\* first call did and commits the binding, the registry rows and the
\* blacklist the first call committed.
C10_RegisterIdempotent ==
    \A hw \in AllHwids, did \in ReqIds, sk \in ReqScripts :
        LET o1 == register_hwid(DB, hw, did, sk, TRUE)
            o2 == register_hwid(o1.db, hw, did, sk, TRUE)
        IN  /\ o2.res = o1.res
            /\ o2.db.users = o1.db.users
            /\ o2.db.hwid_registry = o1.db.hwid_registry
            /\ o2.db.blacklist = o1.db.blacklist

\* A first registration has bound a subscriber and added its registry row,
\* and the same request is answered success again.
C10_Witness ==
    \E u \in users :
        /\ u.hwid = "h1"
        /\ BagIn(<<u.discord_id, "h1">>, hwid_registry)
        /\ register_hwid(DB, "h1", u.discord_id, NULL, TRUE).res.body = "success"

InFlight(s) == regs[s].pc = "write"

\* C11: when two registrations for one subscriber that has no bound
\* fingerprint have both passed their blacklist read and carry different
\* fingerprints, at most one of the two commits reports success.
C11_OneFirstBindWins ==
    \A s1 \in Sessions, s2 \in Sessions :
        ( /\ s1 # s2 /\ InFlight(s1) /\ InFlight(s2)
          /\ regs[s1].discord_id = regs[s2].discord_id
          /\ regs[s1].hwid # regs[s2].hwid
          /\ \E u \in users : u.discord_id = regs[s1].discord_id /\ u.hwid = NULL ) =>
            LET o1 == RegisterWrite(DB, regs[s1].hwid, regs[s1].discord_id, TRUE)
                o2 == RegisterWrite(o1.db, regs[s2].hwid, regs[s2].discord_id, TRUE)
            IN  ~(o1.res.body = "success" /\ o2.res.body = "success")

\* C12: a registration that read "not blacklisted" and commits after a ban
\* of its fingerprint has committed does not leave its subscriber active and
\* bound to that fingerprint.
C12_NoStaleBindAfterBan ==
    \A s \in Sessions :
        (InFlight(s) /\ Banned(DB, regs[s].hwid)) =>
            LET o == RegisterWrite(DB, regs[s].hwid, regs[s].discord_id, TRUE)
            IN  \A v \in o.db.users :
                    ~(v.discord_id = regs[s].discord_id /\ v.hwid = regs[s].hwid /\ v.is_active)

\* C13: no active subscriber is bound to a fingerprint that is in the
\* blacklist.
C13_NoActiveBannedBinding ==
    \A u \in users : (u.hwid # NULL /\ Banned(DB, u.hwid)) => ~u.is_active

InCooldown(u) ==
    u.last_reset # NoDate /\ days_between(now, u.last_reset) < HWID_RESET_COOLDOWN_DAYS

\* C14: a reset asked for by a subscriber whose last reset is less than the
\* cooldown ago is answered CooldownActive(n), n the days left, and commits
\* nothing.
C14_ResetDeniedInCooldown ==
    \A u \in users, ok \in BOOLEAN :
        InCooldown(u) =>
            LET o == reset_hwid(DB, now, u.discord_id, TRUE, ok)
            IN  /\ o.res.body = "cooldown"
                /\ o.res.reason = HWID_RESET_COOLDOWN_DAYS - days_between(now, u.last_reset)
                /\ o.db = DB

C16_ResetWithoutDevice ==
    \A did \in DiscordIds, ok \in BOOLEAN :
        (\A u \in users : u.discord_id = did => ~Truthy(u.hwid)) =>
            LET o == reset_hwid(DB, now, did, TRUE, ok)
            IN  /\ o.res.body = "no_hwid"
                /\ o.db = DB
                /\ o.logged = << >>

\* One identity has no row; another reset its device within the cooldown
\* and has not bound one since.
C16_Witness ==
    /\ \E did \in DiscordIds : \A u \in users : u.discord_id # did
    /\ \E u \in users : u.hwid = NULL /\ InCooldown(u) /\ hwid_resets # EmptyBag

\* C17: a key code that a subscriber holds as license key, and so has been
\* redeemed, is not redeemable: no redeem of it is answered success.
C17_NoSecondRedemption ==
    \A u \in users, v \in DiscordIds :
        redeem_key(DB, now, v, u.license_key, TRUE).res.body # "success"

\* C18: a redeem of a key code absent from the ledger and a redeem of a key
\* code whose row is redeemed get different replies, and neither commits
\* anything.
C18_DistinctRefusals ==
    \A a \in KeyCodes, r \in keys, u \in DiscordIds :
        ((\A k \in keys : k.key_code # a) /\ r.is_redeemed) =>
            LET absent == redeem_key(DB, now, u, a, TRUE)
                used   == redeem_key(DB, now, u, r.key_code, TRUE)
            IN  /\ absent.db = DB /\ used.db = DB
                /\ absent.res # used.res

Writing(s) == reqs[s].pc = "write"

\* C19: the commit of a redeem submission whose reads are done either
\* commits nothing, or commits both the subscriber row (license key,
\* expiry, active) and the key row marked redeemed by that subscriber.
C19_RedeemAllOrNothing ==
    \A s \in Sessions, ok \in BOOLEAN :
        Writing(s) =>
            LET r == reqs[s]
                o == RedeemWrite(DB, r.user, r.key_code, r.expiry_date, r.user_exists, ok)
                subscriber == \E u \in o.db.users :
                                 /\ u.discord_id = r.user /\ u.license_key = r.key_code
                                 /\ u.expiry_date = r.expiry_date /\ u.is_active
                marked == \E k \in o.db.keys :
                             k.key_code = r.key_code /\ k.is_redeemed /\ k.redeemed_by = r.user
            IN  \/ o.db = DB
                \/ subscriber /\ marked

Fresh(generated) ==
    /\ \A i \in DOMAIN generated : \A k \in keys : k.key_code # generated[i]
    /\ \A i \in DOMAIN generated, j \in DOMAIN generated : generated[i] = generated[j] => i = j

\* C20: genkey_command run by an administrator for n <= 20 keys of d days,
\* generate_key() returning n codes new to the ledger and pairwise distinct,
\* adds n rows, one for each code, with is_redeemed = 0 and duration_days = d,
\* and removes none; a redeem of any of them that is answered success leaves
\* the redeemer active with expiry_date = redemption time + d days.
C20_IssueThenRedeem ==
    \A a \in GenInputs, d \in {1, MaxDuration} :
        (a[1] <= MaxKeysPerCommand /\ Len(a[2]) = a[1] /\ Fresh(a[2])) =>
            LET o == genkey_command(DB, "admin", d, a[1], TRUE, a[2], TRUE)
                added == o.db.keys \ keys
            IN  /\ o.res.body = "success"
                /\ keys \subseteq o.db.keys
                /\ Cardinality(added) = a[1]
                /\ added = {KeyRow(a[2][i], d, FALSE, NULL) : i \in DOMAIN a[2]}
                /\ \A k \in added, u \in DiscordIds :
                      LET r == redeem_key(o.db, now, u, k.key_code, TRUE)
                      IN  r.res.body = "success" =>
                            \E row \in r.db.users :
                                /\ row.discord_id = u /\ row.license_key = k.key_code
                                /\ row.is_active
                                /\ row.expiry_date = now + d * TicksPerDay

\* Two keys of one duration are in the ledger, one unredeemed, the other
\* redeemed at the present clock reading, later than the first, by a
\* subscriber that is active until that reading plus the duration.
C20_Witness ==
    \E r1 \in keys, r2 \in keys, u \in users :
        /\ r1.key_code # r2.key_code /\ r1.duration_days = r2.duration_days
        /\ ~r2.is_redeemed
        /\ r1.is_redeemed /\ r1.redeemed_by = u.discord_id /\ u.license_key = r1.key_code
        /\ now > 0 /\ u.is_active /\ u.expiry_date = now + r1.duration_days * TicksPerDay
        /\ genkey_command(DB, "admin", 1, 0, TRUE, << >>, TRUE).res.body = "success"

\* C21: admin_add_key with a key code the ledger holds, and admin_add_script
\* with a script_key the scripts table holds, answer 409 and commit nothing;
\* genkey_command whose generate_key() returns a code the ledger holds
\* raises sqlite3.IntegrityError and commits nothing.  The rows that were
\* there, with is_redeemed and redeemed_by, are as they were.
C21_CollisionFailsLoudly ==
    /\ \A k \in keys, d \in 0..MaxDuration, ok \in BOOLEAN :
          LET o == admin_add_key(DB, k.key_code, d, ok)
          IN  o.res.status = 409 /\ o.res.body = "conflict" /\ o.db = DB
    /\ \A s \in scripts, nm \in ScriptNames \cup {"aim"}, ok \in BOOLEAN :
          LET o == admin_add_script(DB, nm, s.script_key, ok)
          IN  o.res.status = 409 /\ o.res.body = "conflict" /\ o.db = DB
    /\ \A a \in GenInputs, d \in {1, MaxDuration}, ok \in BOOLEAN :
          (/\ a[1] <= MaxKeysPerCommand /\ Len(a[2]) = a[1]
           /\ \E i \in DOMAIN a[2], k \in keys : k.key_code = a[2][i]) =>
              LET o == genkey_command(DB, "admin", d, a[1], TRUE, a[2], ok)
              IN  o.res.body = "exception" /\ o.db = DB /\ o.logged = << >>

\* A redeemed key and a script are stored, and an add-key request for the
\* code of the redeemed key has been answered with the conflict.
C21_Witness ==
    \E k \in keys, s \in scripts :
        /\ k.is_redeemed /\ k.redeemed_by \in DiscordIds
        /\ admin_add_key(DB, k.key_code, MaxDuration, TRUE).res.body = "conflict"
        /\ admin_add_script(DB, s.name, s.script_key, TRUE).res.body = "conflict"

\* C22: no key of the ledger has duration_days < 1, whatever durations the
\* requests of genkey_command and admin_add_key carry.
C22_NoKeyBelowOneDay ==
    \A k \in keys : k.duration_days >= 1

\* C23: admin_delete_key, for a key that is redeemed or not, removes the
\* rows of that key code from the ledger and changes nothing else: every
\* subscriber row (is_active, expiry_date, license_key, hwid), the
\* blacklist, the scripts and the registry are as they were.
C23_DeleteKeyFrame ==
    \A kc \in KeyCodes, ok \in BOOLEAN :
        LET o == admin_delete_key(DB, kc, ok)
        IN  /\ o.res.body = "success"
            /\ o.db.keys = {r \in keys : r.key_code # kc}
            /\ o.db.users = users
            /\ o.db.blacklist = blacklist
            /\ o.db.scripts = scripts
            /\ o.db.hwid_registry = hwid_registry
            /\ o.db.hwid_resets = hwid_resets

\* The key a subscriber redeemed has been deleted: the subscriber is still
\* active, holds the key code and a bound fingerprint, while a fingerprint
\* is in the blacklist and another redeemed key is still in the ledger.
C23_Witness ==
    \E u \in users, k \in keys :
        /\ u.license_key \in KeyCodes /\ u.is_active /\ Truthy(u.hwid)
        /\ \A r \in keys : r.key_code # u.license_key
        /\ k.is_redeemed
        /\ blacklist # {}

\* C24: after whitelist_command has answered success for a member, and after
\* it has answered success a second time for the same member, the users
\* table holds exactly one row with the discord_id of that member.
C24_WhitelistCreatesOneRow ==
    \A u \in DiscordIds :
        LET o1 == whitelist_command(DB, "admin", u, TRUE, "found", TRUE)
            o2 == whitelist_command(o1.db, "admin", u, TRUE, "found", TRUE)
        IN  /\ o1.res.body = "success" =>
                  Cardinality({r \in o1.db.users : r.discord_id = u}) = 1
            /\ o2.res.body = "success" =>
                  Cardinality({r \in o2.db.users : r.discord_id = u}) = 1

\* C25: the users table never holds two rows with one discord_id, whatever
\* the order in which the statements of concurrent redeem submissions run.
C25_OneRowPerIdentity ==
    \A u \in users, v \in users : u.discord_id = v.discord_id => u = v

\* Two submissions of one member on different key codes have both read the
\* users table before either wrote to it: one has inserted the row of the
\* member, the INSERT of the other has been refused.
C25_Witness ==
    \E s \in Sessions, t \in Sessions :
        /\ reqs[s].pc = "done" /\ reqs[t].pc = "done"
        /\ reqs[s].user = reqs[t].user /\ reqs[s].key_code # reqs[t].key_code
        /\ ~reqs[s].user_exists /\ ~reqs[t].user_exists
        /\ reqs[s].result = "success" /\ reqs[t].result = "exception"
        /\ Cardinality({r \in users : r.discord_id = reqs[s].user}) = 1

SameOutcome(a, b) ==
    a.res.status = b.res.status /\ a.res.body = b.res.body /\ a.db = b.db

\* C26: each of verify_key, check_blacklist, register_hwid, admin_blacklist,
\* on_submit, reset_hwid_button and genkey_command gives the same reply and
\* commits the same tables when its journal INSERT fails as when it succeeds.
C26_JournalFailureIsInvisible ==
    /\ \A sk \in ReqScripts, hw \in AllHwids :
          /\ SameOutcome(verify_key(DB, sk, hw, TRUE), verify_key(DB, sk, hw, FALSE))
          /\ SameOutcome(check_blacklist(DB, hw, sk, TRUE), check_blacklist(DB, hw, sk, FALSE))
          /\ \A did \in ReqIds :
                SameOutcome(register_hwid(DB, hw, did, sk, TRUE),
                            register_hwid(DB, hw, did, sk, FALSE))
    /\ \A hw \in AllHwids, b \in BanInputs :
          SameOutcome(admin_blacklist(DB, hw, b[1], b[2], NULL, TRUE),
                      admin_blacklist(DB, hw, b[1], b[2], NULL, FALSE))
    /\ \A u \in DiscordIds, t \in KeyTexts :
          SameOutcome(redeem_key(DB, now, u, t, TRUE), redeem_key(DB, now, u, t, FALSE))
    /\ \A u \in DiscordIds, buyer \in BOOLEAN :
          SameOutcome(reset_hwid(DB, now, u, buyer, TRUE), reset_hwid(DB, now, u, buyer, FALSE))
    /\ \A a \in GenInputs, d \in {1, MaxDuration}, admin \in BOOLEAN :
          (a[1] <= MaxKeysPerCommand => Len(a[2]) = a[1]) =>
              SameOutcome(genkey_command(DB, "admin", d, a[1], admin, a[2], TRUE),
                          genkey_command(DB, "admin", d, a[1], admin, a[2], FALSE))

\* C27: every verify_key call that does not answer valid answers 403 with
\* valid = false, as invalid_key or as blacklisted, and appends one journal
\* row whose action names that reason (the journal INSERT succeeding).
C27_DenyIsStructuredAndLogged ==
    \A sk \in ReqScripts, hw \in AllHwids :
        LET o == verify_key(DB, sk, hw, TRUE)
        IN  o.res.body # "valid" =>
              /\ o.res.status = 403
              /\ o.res.body \in {"invalid_key", "blacklisted"}
              /\ Len(o.logged) = 1
              /\ o.logged[1].action =
                    (IF o.res.body = "invalid_key" THEN "INVALID_KEY" ELSE "BLACKLIST_CHECK")

\* C28: with a script_key that selects no script, verify_key, check_blacklist
\* and register_hwid answer invalid_key whether or not the fingerprint of
\* the request is in the blacklist, return no blacklist reason, and leave
\* every table as it was.  (What verify_key answers to a null script_key is
\* the subject of C27.)
C28_CredentialFirst ==
    \A sk \in ReqScripts \cup {""}, hw \in AllHwids, did \in ReqIds :
        ~Resolves(DB, sk) =>
            LET v == verify_key(DB, sk, hw, TRUE)
                c == check_blacklist(DB, hw, sk, TRUE)
                r == register_hwid(DB, hw, did, sk, TRUE)
            IN  /\ sk # NULL =>
                      v.res.body = "invalid_key" /\ v.res.reason = NULL /\ v.db = DB
                /\ c.res.body = "invalid_key" /\ c.res.reason = NULL /\ c.db = DB
                /\ r.res.body = "invalid_key" /\ r.res.reason = NULL /\ r.db = DB

\* C29: for every script_key that selects a script and every fingerprint
\* that a request can carry and the blacklist can hold, the empty string
\* included, check_blacklist answers blacklisted exactly when verify_key
\* answers blacklisted, and with the same reason.
C29_CheckAndVerifyAgree ==
    \A sk \in ScriptKeys, hw \in AllHwids \ {NULL} :
        Resolves(DB, sk) =>
            LET c == check_blacklist(DB, hw, sk, TRUE)
                v == verify_key(DB, sk, hw, TRUE)
            IN  /\ (c.res.body = "blacklisted") <=> (v.res.body = "blacklisted")
                /\ c.res.body = "blacklisted" => c.res.reason = v.res.reason

Identities(us) == {r.discord_id : r \in us}

\* C30: no step removes a discord_id from the users table; a step that adds
\* a blacklist row (a ban) changes at most is_active, to 0, in the rows
\* that were there, and a step that adds a hwid_resets row (a panel reset)
\* at most hwid, to NULL, and last_reset.
C30_NoSubscriberDeleted ==
    [][/\ Identities(users) \subseteq Identities(users')
       /\ blacklist' # blacklist =>
             /\ Cardinality(users') = Cardinality(users)
             /\ \A u \in users :
                   u \in users' \/ [u EXCEPT !.is_active = FALSE] \in users'
       /\ hwid_resets' # hwid_resets =>
             /\ Cardinality(users') = Cardinality(users)
             /\ \A u \in users :
                   u \in users' \/ [u EXCEPT !.hwid = NULL, !.last_reset = now] \in users'
      ]_vars

\* Both rows are still in the users table after one subscriber was
\* deactivated by the ban of the fingerprint it is bound to and the other
\* had its binding cleared by a panel reset.
C30_Witness ==
    \E u \in users, v \in users :
        /\ u.discord_id # v.discord_id
        /\ ~u.is_active /\ Banned(DB, u.hwid)
        /\ v.hwid = NULL /\ v.last_reset # NoDate

\* C31: a redeem submission that is answered success for a member that has
\* a users row leaves that member with an expiry_date not earlier than the
\* one the row held before.
C31_RedeemNeverShortens ==
    \A u \in users, t \in KeyTexts :
        LET o == redeem_key(DB, now, u.discord_id, t, TRUE)
        IN  o.res.body = "success" =>
              \A v \in o.db.users :
                  v.discord_id = u.discord_id => v.expiry_date >= u.expiry_date

\* C32: for a subscriber with a bound fingerprint and a last reset,
\* reset_hwid answers cooldown exactly while the whole days elapsed since
\* last_reset are fewer than the cooldown and succeeds otherwise; the days
\* left it reports are the cooldown minus the whole days elapsed, lie in
\* 1..cooldown, and do not grow from one clock reading to the next.
C32_DaysLeft ==
    \A u \in users :
        (Truthy(u.hwid) /\ u.last_reset # NoDate) =>
            LET o       == reset_hwid(DB, now, u.discord_id, TRUE, TRUE)
                later   == reset_hwid(DB, now + 1, u.discord_id, TRUE, TRUE)
                elapsed == (now - u.last_reset) \div TicksPerDay
            IN  /\ (o.res.body = "cooldown") <=> (elapsed < HWID_RESET_COOLDOWN_DAYS)
                /\ o.res.body \in {"cooldown", "success"}
                /\ o.res.body = "cooldown" =>
                      /\ o.res.reason = HWID_RESET_COOLDOWN_DAYS - elapsed
                      /\ o.res.reason >= 1 /\ o.res.reason <= HWID_RESET_COOLDOWN_DAYS
                      /\ o.db = DB
                      /\ later.res.body = "cooldown" => later.res.reason <= o.res.reason

\* A subscriber that reset its device and bound one again is asked to wait
\* fewer days than the cooldown: a whole day has passed since the reset.
C32_Witness ==
    \E u \in users :
        /\ Truthy(u.hwid) /\ InCooldown(u) /\ now - u.last_reset >= TicksPerDay
        /\ LET o == reset_hwid(DB, now, u.discord_id, TRUE, TRUE)
           IN  o.res.body = "cooldown" /\ o.res.reason < HWID_RESET_COOLDOWN_DAYS

\* C33: verify_key and check_blacklist, for every script_key, fingerprint
\* and outcome, leave the keys, the scripts, the blacklist, the users and
\* the registry as they were; what they add is at most one journal row.
C33_VerifyAndCheckReadOnly ==
    \A sk \in ReqScripts \cup {""}, hw \in AllHwids, ok \in BOOLEAN :
        LET v == verify_key(DB, sk, hw, ok)
            c == check_blacklist(DB, hw, sk, ok)
        IN  /\ v.db = DB /\ Len(v.logged) <= 1
            /\ c.db = DB /\ Len(c.logged) <= 1

\* An active subscriber with a key and an expiry is bound to a blacklisted
\* fingerprint, and both requests for that fingerprint are answered
\* blacklisted and journalled.
C33_Witness ==
    \E u \in users, s \in scripts, k \in keys :
        /\ u.is_active /\ u.expiry_date # NoDate /\ Banned(DB, u.hwid)
        /\ LET v == verify_key(DB, s.script_key, u.hwid, TRUE)
               c == check_blacklist(DB, u.hwid, s.script_key, TRUE)
           IN  /\ v.res.body = "blacklisted" /\ Len(v.logged) = 1
               /\ c.res.body = "blacklisted" /\ Len(c.logged) = 1

\* C34: every key of the ledger with is_redeemed = 0 is redeemable: a redeem
\* submission whose text is the stored key_code is answered success,
\* whoever submits it and whichever path stored the key.
C34_UnusedKeyRedeemable ==
    \A k \in keys, u \in DiscordIds :
        ~k.is_redeemed => redeem_key(DB, now, u, k.key_code, TRUE).res.body = "success"

\* C35: get_script_button replies with the script keys only to a member
\* whose users row has is_active = 1 and an expiry_date that has not passed.
C35_ScriptsOnlyToCurrentSubscribers ==
    \A u \in DiscordIds, buyer \in BOOLEAN :
        get_script_button(DB, u, buyer).res.body = "scripts" =>
            \E r \in users :
                /\ r.discord_id = u /\ r.is_active
                /\ ~(r.expiry_date # NoDate /\ r.expiry_date < now)

====
